---- MODULE Spec2Model ----
(***************************************************************************)
(* The sequential task-queue daemon of scripts/monitor_daemon.py and       *)
(* scripts/task_executor.py: the watcher thread (TaskFileHandler), the     *)
(* event loop that runs the scheduled TaskQueue.put coroutines and the     *)
(* processing loop MonitorDaemon._process_queue, and the executor          *)
(* TaskExecutor.execute_task with the agent's event stream.                *)
(*                                                                         *)
(* One action is one run of the event loop between two suspension points   *)
(* (an await that really yields), or one callback of the watcher thread.   *)
(* The file system and the agent are the environment: whether a write      *)
(* succeeds, whether the task document exists and which event the agent    *)
(* sends next are chosen with \E.                                          *)
(***************************************************************************)
EXTENDS Integers, Sequences, FiniteSets, TLC

VARIABLES
    running,        \* MonitorDaemon.running
    observer,       \* the watchdog observer thread: "running" or "stopped"
    loop,           \* the asyncio event loop of asyncio.run: "running" or "closed"
    scheduled,      \* TaskQueue.put coroutines handed to the loop, not yet run
    queue,          \* TaskQueue.queue (asyncio.Queue), head first
    current_task,   \* TaskQueue.current_task
    is_processing,  \* TaskQueue.is_processing
    stateFile,      \* state/queue_state.json
    pc,             \* where _process_queue is suspended
    task_file,      \* _process_queue's local task_file
    execLog,        \* the file names passed to execute_task, in call order
    inflight,       \* the execute_task calls (positions of execLog) not yet returned or raised
    exec,           \* the latest execute_task call
    results,        \* results/<task_id>.json, per task_id
    now,            \* datetime.now()
    nEvents,        \* creation events delivered to on_created so far
    delivered,      \* the file names on_created handed to run_coroutine_threadsafe
    dequeued,       \* the file names get_next took from the queue, in order
    dropped,        \* positions of `dequeued` that were never passed to execute_task
    errorLog,       \* the last logger.error line of _process_queue
    watcherLog,     \* the last log line of on_created
    validatorInput, \* the validator built and the argument of its validate
    validation,     \* the ValidationResult validate returned
    state,          \* the State dictionary of the workflow graph
    run             \* the invocation of the compiled graph: its node and its history

\* the daemon's state, and the state of a validator of workflow/validators
daemonVars == <<running, observer, loop, scheduled, queue, current_task,
                is_processing, stateFile, pc, task_file, execLog, inflight, exec,
                results, now, nEvents, delivered, dequeued, dropped, errorLog,
                watcherLog>>
validatorVars == <<validatorInput, validation>>
\* the state of one invocation of the LangGraph workflow of workflow/graph.py
workflowVars == <<state, run>>

vars == <<running, observer, loop, scheduled, queue, current_task, is_processing,
          stateFile, pc, task_file, execLog, inflight, exec, results, now,
          nEvents, delivered, dequeued, dropped, errorLog, watcherLog,
          validatorInput, validation, state, run>>

\* ---------------------------------------------------------------- bounds

\* creation events the watcher delivers in one run
MaxEvents == 2
\* messages without a terminal subtype the agent sends in one call
MaxStream == 1

\* ---------------------------------------------------------------- values

\* Python's None and a present value
None == <<>>
Some(x) == <<x>>

\* A file name is <<prefix, id, suffix>>: "task-" "001" ".md" is task-001.md.
TaskNames == { <<"task-", "001", ".md">>, <<"task-", "002", ".md">> }
OtherNames == { <<"notes-", "001", ".md">> }
FileNames == TaskNames \cup OtherNames

\* file_path.match("task-*.md")
PathMatch_AnyMarkdown(name) == name[3] = ".md"

PathMatch(name) == name[1] = "task-" /\ name[3] = ".md"

\* Path(task_file).stem
Stem(name) == <<name[1], name[2]>>

TaskIds == { Stem(n) : n \in TaskNames }

\* TaskStatus
RUNNING == "running"
COMPLETED == "completed"
FAILED == "failed"

\* what `with open(path, 'w') as f:` + write does: it succeeds, or the write
\* raises (disk full, I/O error) after open() has truncated the file
WriteOutcomes == {"ok", "failed"}

Raises(outcome) == outcome # "ok"

\* ---------------------------------------------------------------- queue state

\* `state` of _save_state
Snapshot_CountsCurrent(q, ct, ip) ==
    [ queue_size |-> Len(q) + (IF ip THEN 1 ELSE 0),
      current_task |-> ct,
      is_processing |-> ip,
      queued_tasks |-> <<>> ]

Snapshot(q, ct, ip) ==
    [ queue_size |-> Len(q),
      current_task |-> ct,
      is_processing |-> ip,
      queued_tasks |-> <<>> ]

AbsentFile == [ kind |-> "absent", doc |-> None ]
PartialFile == [ kind |-> "partial", doc |-> None ]
WrittenFile(doc) == [ kind |-> "written", doc |-> Some(doc) ]

\* the file after _save_state: open(..., 'w') truncates what was there (old)
SaveState(old, q, ct, ip, outcome) ==
    IF outcome = "ok" THEN WrittenFile(Snapshot(q, ct, ip)) ELSE PartialFile

\* a state file left by an earlier run of the daemon
StaleState == WrittenFile(Snapshot(<<>>, Some(<<"task-", "001", ".md">>), TRUE))

\* no validator is built by the daemon
NoInput == [ validator |-> "none" ]

\* self.queue = asyncio.Queue() of TaskQueue.__init__: empty, whatever the
\* tasks directory holds; nothing in __init__, start or _run lists the directory
InitialQueue_FromDirectory == << <<"task-", "001", ".md">> >>

InitialQueue == <<>>

\* ---------------------------------------------------------------- Init

Init ==
    /\ running = TRUE
    /\ observer = "running"
    /\ loop = "running"
    /\ scheduled = <<>>
    /\ queue = InitialQueue
    /\ current_task = None
    /\ is_processing = FALSE
    /\ stateFile \in {AbsentFile, StaleState}
    /\ pc = "wait"
    /\ task_file = None
    /\ execLog = <<>>
    /\ inflight = {}
    /\ exec = None
    /\ results = [ id \in TaskIds |-> AbsentFile ]
    /\ now = 0
    /\ nEvents = 0
    /\ delivered = <<>>
    /\ dequeued = <<>>
    /\ dropped = {}
    /\ errorLog = "none"
    /\ watcherLog = "none"
    /\ validatorInput = NoInput
    /\ validation = None
    /\ state = None
    /\ run = None

\* ---------------------------------------------------------------- watcher thread

\* TaskFileHandler.on_created, on the observer's thread
on_created_PutsDirectly(name, is_directory) ==
    /\ UNCHANGED <<validatorVars, workflowVars>>
    /\ observer = "running"
    /\ nEvents < MaxEvents
    /\ nEvents' = nEvents + 1
    /\ IF is_directory \/ ~PathMatch(name)
         THEN UNCHANGED <<queue, delivered, watcherLog>>
         ELSE /\ queue' = Append(queue, name)
              /\ delivered' = Append(delivered, name)
              /\ watcherLog' = "queued"
    /\ UNCHANGED <<running, observer, loop, scheduled, current_task, is_processing,
                   stateFile, pc, task_file, execLog, inflight, exec, results, now,
                   dequeued, dropped, errorLog>>

on_created(name, is_directory) ==
    /\ UNCHANGED <<validatorVars, workflowVars>>
    /\ observer = "running"
    /\ nEvents < MaxEvents
    /\ nEvents' = nEvents + 1
    /\ IF is_directory \/ ~PathMatch(name)
         THEN UNCHANGED <<scheduled, delivered, watcherLog>>
         ELSE IF loop = "running"
           THEN /\ scheduled' = Append(scheduled, name)
                /\ delivered' = Append(delivered, name)
                /\ watcherLog' = "queued"
           ELSE \* run_coroutine_threadsafe raises on a closed loop
                /\ watcherLog' = "failed"
                /\ UNCHANGED <<scheduled, delivered>>
    /\ UNCHANGED <<running, observer, loop, queue, current_task, is_processing,
                   stateFile, pc, task_file, execLog, inflight, exec, results, now,
                   dequeued, dropped, errorLog>>

\* ---------------------------------------------------------------- event loop

\* asyncio.Queue.put of an unbounded queue (line 41): at the tail, at once
Enqueue_AtHead(q, name) == <<name>> \o q

Enqueue(q, name) == Append(q, name)

\* TaskQueue.put, run by the loop for the oldest scheduled coroutine
put(outcome) ==
    /\ UNCHANGED <<validatorVars, workflowVars>>
    /\ loop = "running"
    /\ scheduled # <<>>
    /\ scheduled' = Tail(scheduled)
    /\ queue' = Enqueue(queue, Head(scheduled))
    /\ stateFile' = SaveState(stateFile, queue', current_task, is_processing, outcome)
    /\ UNCHANGED <<running, observer, loop, current_task, is_processing, pc,
                   task_file, execLog, inflight, exec, results, now, nEvents,
                   delivered, dequeued, dropped, errorLog, watcherLog>>

\* the `except Exception` of _process_queue (lines 224-228): the file it leaves
\* and where the loop goes; a raise in the handler ends the coroutine
ErrorHandler(file, q, outcome) ==
    [ file |-> SaveState(file, q, None, FALSE, outcome),
      pc |-> IF Raises(outcome) THEN "crashed" ELSE "wait",
      log |-> "error processing" ]

\* "Mark as ready for next task" (lines 213-219), and lines 224-228 when its
\* _save_state raises
MarkReady(file, q, log, o1, o2) ==
    IF Raises(o1)
      THEN ErrorHandler(SaveState(file, q, None, FALSE, o1), q, o2)
      ELSE [ file |-> SaveState(file, q, None, FALSE, o1), pc |-> "sleep", log |-> log ]

\* TaskQueue.get_next inside asyncio.wait_for (line 188), and lines 224-228
\* when its _save_state raises
get_next(o1, o2) ==
    /\ UNCHANGED <<validatorVars, workflowVars>>
    /\ loop = "running"
    /\ pc = "wait"
    /\ queue # <<>>
    /\ ~Raises(o1) => o2 = "ok"      \* no second write
    /\ queue' = Tail(queue)
    /\ dequeued' = Append(dequeued, Head(queue))
    /\ IF ~Raises(o1)
         THEN /\ stateFile' = SaveState(stateFile, queue', current_task, is_processing, o1)
              /\ task_file' = Some(Head(queue))
              /\ pc' = "got"
              /\ UNCHANGED <<current_task, is_processing, dropped, errorLog>>
         ELSE LET h == ErrorHandler(
                         SaveState(stateFile, queue', current_task, is_processing, o1),
                         queue', o2)
              IN /\ stateFile' = h.file
                 /\ pc' = h.pc
                 /\ errorLog' = h.log
                 /\ current_task' = None
                 /\ is_processing' = FALSE
                 /\ dropped' = dropped \cup {Len(dequeued')}
                 /\ UNCHANGED task_file
    /\ UNCHANGED <<running, observer, loop, scheduled, execLog, inflight, exec,
                   results, now, nEvents, delivered, watcherLog>>

\* asyncio.TimeoutError of wait_for (lines 221-223): continue, wait again
Timeout ==
    /\ loop = "running"
    /\ pc = "wait"
    /\ UNCHANGED vars

\* ---------------------------------------------------------------- executor

\* TaskResult(task_id, status=RUNNING, created_at=now, started_at=now)
NewResult(task_id, t) ==
    [ task_id |-> task_id,
      status |-> RUNNING,
      created_at |-> t,
      started_at |-> t,
      completed_at |-> None,
      error |-> None,
      worker_output |-> None ]

\* the exception _read_task_document raises
NotFound == [ type |-> "FileNotFoundError", msg |-> "Task document not found" ]

\* the exception open()/write() of _save_result raises
WriteError == [ type |-> "OSError", msg |-> "cannot write result" ]

\* exceptions the agent call raises
AgentErrors == { [ type |-> "RuntimeError", msg |-> "connection lost" ] }

\* f"{type(e).__name__}: {str(e)}"
FormatError_MessageOnly(e) == <<e.msg>>

FormatError(e) == <<e.type, ": ", e.msg>>

\* message.result or default
OrDefault(value, default) == IF value = None THEN default ELSE value[1]

\* where _process_queue is while it awaits execute_task (line 200)
AwaitExecute_NotAwaited == "wait"

AwaitExecute == "exec"

\* one execute_task call: its file, how far it is, the TaskResult it holds,
\* every value assigned to result.status in order, the text blocks collected,
\* the messages consumed, how the stream ended, the exception caught last,
\* and the async generator query(...) of line 53 as the call leaves it
NewExec(name, t) ==
    [ task |-> name,
      phase |-> "streaming",
      result |-> Some(NewResult(Stem(name), t)),
      assigned |-> <<RUNNING>>,
      full_output |-> <<>>,
      received |-> 0,
      ending |-> None,
      exc |-> None,
      stream |-> "iterating" ]

\* an execute_task call that raised in _read_task_document
FailedRead(name) ==
    [ task |-> name,
      phase |-> "raised",
      result |-> None,
      assigned |-> <<>>,
      full_output |-> <<>>,
      received |-> 0,
      ending |-> None,
      exc |-> Some(NotFound),
      stream |-> "none" ]

\* lines 193-200: the task is marked current and execute_task is called; it
\* runs until its first await of the agent's stream, or raises at once
StartTask(exists, o1, o2, o3) ==
    /\ UNCHANGED <<validatorVars, workflowVars>>
    /\ loop = "running"
    /\ pc = "got"
    /\ (Raises(o1) \/ exists) => o3 = "ok"                 \* at most two writes
    /\ (~Raises(o1) /\ (exists \/ ~Raises(o2))) => o2 = "ok" \* a single write
    /\ LET name == task_file[1]
           marked == SaveState(stateFile, queue, Some(name), TRUE, o1)
       IN IF Raises(o1)
            THEN LET h == ErrorHandler(marked, queue, o2)
                 IN /\ stateFile' = h.file
                    /\ pc' = h.pc
                    /\ errorLog' = h.log
                    /\ current_task' = None
                    /\ is_processing' = FALSE
                    /\ dropped' = dropped \cup {Len(dequeued)}
                    /\ UNCHANGED <<execLog, inflight, exec, now>>
            ELSE IF ~exists
              THEN LET r == MarkReady(marked, queue, "task failed", o2, o3)
                   IN /\ execLog' = Append(execLog, name)
                      /\ exec' = Some(FailedRead(name))
                      /\ stateFile' = r.file
                      /\ pc' = r.pc
                      /\ errorLog' = r.log
                      /\ current_task' = None
                      /\ is_processing' = FALSE
                      /\ UNCHANGED <<inflight, dropped, now>>
              ELSE /\ execLog' = Append(execLog, name)
                   /\ inflight' = inflight \cup {Len(execLog')}
                   /\ exec' = Some(NewExec(name, now + 1))
                   /\ now' = now + 1
                   /\ stateFile' = marked
                   /\ pc' = AwaitExecute
                   /\ current_task' = Some(name)
                   /\ is_processing' = TRUE
                   /\ UNCHANGED <<dropped, errorLog>>
    /\ UNCHANGED <<running, observer, loop, scheduled, queue, task_file, results,
                   nEvents, delivered, dequeued, watcherLog>>

\* what the agent's stream yields between two awaits: a message with no
\* subtype and a text block, or a message of a subtype that ends nothing
StreamMessages ==
    { [ subtype |-> None, text |-> Some("output") ],
      [ subtype |-> Some("init"), text |-> None ] }

\* how the stream ends: a 'success' or 'error' message (its result may be
\* None), the end of the iteration, or an exception of the agent call
StreamEndings ==
    { [ kind |-> k, result |-> r, exc |-> None ] :
          k \in {"success", "error"}, r \in {None, Some("agent text")} }
    \cup { [ kind |-> "end", result |-> None, exc |-> None ] }
    \cup { [ kind |-> "raise", result |-> None, exc |-> Some(e) ] : e \in AgentErrors }

\* the body of `async for` for a message that does not break (lines 54-76)
Consume(x, m) ==
    [ x EXCEPT !.received = @ + 1,
               !.full_output = IF m.subtype = None /\ m.text # None
                                 THEN Append(@, m.text[1]) ELSE @ ]

\* the call _process_queue is awaiting
Streaming ==
    /\ loop = "running"
    /\ pc = "exec"
    /\ exec # None
    /\ exec[1].phase = "streaming"

\* the agent sends a message that is neither 'success' nor 'error'
AgentMessage(m) ==
    /\ UNCHANGED <<validatorVars, workflowVars>>
    /\ Streaming
    /\ exec[1].received < MaxStream
    /\ exec' = Some(Consume(exec[1], m))
    /\ UNCHANGED <<running, observer, loop, scheduled, queue, current_task,
                   is_processing, stateFile, pc, task_file, execLog, inflight,
                   results, now, nEvents, delivered, dequeued, dropped, errorLog,
                   watcherLog>>

\* the file after _save_result: open(..., "w") truncates what was there (old)
SaveResult_KeepsOld(old, r, outcome) ==
    IF outcome = "ok"
      THEN IF old.kind = "written" THEN old ELSE WrittenFile(r)
      ELSE PartialFile

SaveResult(old, r, outcome) ==
    IF outcome = "ok" THEN WrittenFile(r) ELSE PartialFile

\* lines 55-71: the result after a 'success' or an 'error' message
Terminal(r, full_output, ending, t) ==
    CASE ending.kind = "success" ->
           [ r EXCEPT !.status = COMPLETED,
                      !.completed_at = Some(t),
                      !.worker_output =
                          Some([ summary |-> OrDefault(ending.result, "Task completed"),
                                 raw_output |-> full_output ]) ]
      [] ending.kind = "error" ->
           [ r EXCEPT !.status = FAILED,
                      !.completed_at = Some(t),
                      !.error = Some(<<OrDefault(ending.result, "Task failed")>>) ]
      [] OTHER -> r

\* lines 80-83: the result after `except Exception as e`
Excepted(r, e, t) ==
    [ r EXCEPT !.status = FAILED,
               !.error = Some(FormatError(e)),
               !.completed_at = Some(t) ]

\* the generator of `async for message in query(...)` when the loop is left:
\* a `break` (lines 66, 71) leaves it suspended at its yield, and nothing in
\* execute_task closes it; at the end of the iteration or when it raises, it
\* has finished by itself
StreamLeft(ending) ==
    IF ending.kind \in {"success", "error"} THEN "suspended" ELSE "finished"

\* the rest of execute_task from the end of the stream (lines 53-86): the call
\* as it ends (its local full_output is gone) and the result file it leaves.
\* o1 is the _save_result of line 78, o2 the one of line 84.
Finish(x, old, ending, t, o1, o2) ==
    LET r1 == Terminal(x.result[1], x.full_output, ending, t)
        a1 == IF ending.kind \in {"success", "error"}
                THEN Append(x.assigned, r1.status) ELSE x.assigned
        caught == ending.kind = "raise" \/ Raises(o1)
        e == IF ending.kind = "raise" THEN ending.exc[1] ELSE WriteError
        file1 == IF ending.kind = "raise" THEN old ELSE SaveResult(old, r1, o1)
        r2 == Excepted(r1, e, t)
    IN IF ~caught
         THEN [ exec |-> [ x EXCEPT !.phase = "returned",
                                    !.ending = Some(ending),
                                    !.full_output = <<>>,
                                    !.result = Some(r1),
                                    !.assigned = a1,
                                    !.stream = StreamLeft(ending) ],
                file |-> file1 ]
         ELSE [ exec |-> [ x EXCEPT !.phase = IF Raises(o2) THEN "raised" ELSE "returned",
                                    !.ending = Some(ending),
                                    !.full_output = <<>>,
                                    !.result = Some(r2),
                                    !.assigned = Append(a1, FAILED),
                                    !.exc = Some(IF Raises(o2) THEN WriteError ELSE e),
                                    !.stream = StreamLeft(ending) ],
                file |-> SaveResult(file1, r2, o2) ]

\* the stream ends: execute_task returns or raises, and _process_queue goes
\* on to its sleep (lines 201-219) without another await
AgentFinish(ending, ro1, ro2, so1, so2) ==
    /\ UNCHANGED <<validatorVars, workflowVars>>
    /\ Streaming
    /\ ending.kind = "raise" => ro1 = "ok"                   \* line 78 not reached
    /\ (ending.kind # "raise" /\ ~Raises(ro1)) => ro2 = "ok" \* line 84 not reached
    /\ ~Raises(so1) => so2 = "ok"                            \* line 228 not reached
    /\ LET x == exec[1]
           id == x.result[1].task_id
           f == Finish(x, results[id], ending, now + 1, ro1, ro2)
           m == MarkReady(stateFile, queue,
                          IF f.exec.phase = "returned" THEN errorLog ELSE "task failed",
                          so1, so2)
       IN /\ exec' = Some(f.exec)
          /\ results' = [ results EXCEPT ![id] = f.file ]
          /\ stateFile' = m.file
          /\ pc' = m.pc
          /\ errorLog' = m.log
    /\ inflight' = inflight \ {Len(execLog)}
    /\ now' = now + 1
    /\ current_task' = None
    /\ is_processing' = FALSE
    /\ UNCHANGED <<running, observer, loop, scheduled, queue, task_file, execLog,
                   nEvents, delivered, dequeued, dropped, watcherLog>>

\* asyncio.sleep(0.5) of line 219 is over
SleepDone ==
    /\ UNCHANGED <<validatorVars, workflowVars>>
    /\ loop = "running"
    /\ pc = "sleep"
    /\ pc' = "wait"
    /\ UNCHANGED <<running, observer, loop, scheduled, queue, current_task,
                   is_processing, stateFile, task_file, execLog, inflight, exec,
                   results, now, nEvents, delivered, dequeued, dropped, errorLog,
                   watcherLog>>

\* ---------------------------------------------------------------- shutdown

\* KeyboardInterrupt in asyncio.run (line 144): asyncio.run cancels the tasks
\* of the loop at their await and closes the loop. CancelledError is no
\* Exception, so no handler of _process_queue or execute_task runs.
Interrupt ==
    /\ UNCHANGED <<validatorVars, workflowVars>>
    /\ loop = "running"
    /\ loop' = "closed"
    /\ pc' = IF pc = "crashed" THEN pc ELSE "cancelled"
    /\ exec' = IF exec # None /\ exec[1].phase = "streaming"
                 THEN Some([ exec[1] EXCEPT !.phase = "cancelled" ])
                 ELSE exec
    /\ inflight' = {}
    /\ UNCHANGED <<running, observer, scheduled, queue, current_task, is_processing,
                   stateFile, task_file, execLog, results, now, nEvents, delivered,
                   dequeued, dropped, errorLog, watcherLog>>

\* lines 145-149 of MonitorDaemon.start
StopObserver ==
    /\ UNCHANGED <<validatorVars, workflowVars>>
    /\ loop = "closed"
    /\ observer = "running"
    /\ running' = FALSE
    /\ observer' = "stopped"
    /\ UNCHANGED <<loop, scheduled, queue, current_task, is_processing, stateFile,
                   pc, task_file, execLog, inflight, exec, results, now, nEvents,
                   delivered, dequeued, dropped, errorLog, watcherLog>>

\* ---------------------------------------------------------------- specification

Next ==
    \/ \E name \in FileNames, d \in BOOLEAN : on_created(name, d)
    \/ \E o \in WriteOutcomes : put(o)
    \/ \E o1, o2 \in WriteOutcomes : get_next(o1, o2)
    \/ Timeout
    \/ \E exists \in BOOLEAN, o1, o2, o3 \in WriteOutcomes : StartTask(exists, o1, o2, o3)
    \/ \E m \in StreamMessages : AgentMessage(m)
    \/ \E ending \in StreamEndings, ro1, ro2, so1, so2 \in WriteOutcomes :
           AgentFinish(ending, ro1, ro2, so1, so2)
    \/ SleepDone
    \/ Interrupt
    \/ StopObserver

Spec == Init /\ [][Next]_vars

\* ---------------------------------------------------------------- properties

TerminalStatuses == {COMPLETED, FAILED}

RECURSIVE Without(_, _, _)
\* the sequence s without the positions in `skip`, from position i on
Without(s, skip, i) ==
    IF i > Len(s) THEN <<>>
    ELSE IF i \in skip THEN Without(s, skip, i + 1)
    ELSE <<s[i]>> \o Without(s, skip, i + 1)

IsPrefix(s, t) == Len(s) <= Len(t) /\ SubSeq(t, 1, Len(s)) = s

\* C1: at most one execute_task call is in flight at any moment, and while
\* one is in flight the processing loop is awaiting it: it is not waiting to
\* dequeue, holding a dequeued task or sleeping before the next one.
C1_AtMostOneInFlight ==
    /\ Cardinality(inflight) <= 1
    /\ pc \in {"wait", "got", "sleep"} => inflight = {}

\* a call is in flight while the watcher's tasks pile up in the queue
C1_Witness == inflight = {1} /\ Len(queue) >= 1 /\ pc = "exec"

\* C2: the files passed to execute_task are, in this order, the files
\* on_created delivered: get_next takes them in delivery order, and the calls
\* are the taken files in the same order, without those given up when a state
\* write raised; the one taken last may not have been started yet.
C2_FifoOrder ==
    /\ IsPrefix(dequeued, delivered)
    /\ IsPrefix(execLog, Without(dequeued, dropped, 1))
    /\ Len(Without(dequeued, dropped, 1)) - Len(execLog) <= 1

\* two different files were delivered while the loop was busy and executed
\* in the order of their delivery
C2_Witness ==
    /\ Len(execLog) = 2
    /\ execLog[1] # execLog[2]
    /\ execLog = delivered
    /\ dropped = {}

\* a result file that holds a TaskResult with a terminal status and completed_at
PersistedTerminal(file) ==
    /\ file.kind = "written"
    /\ file.doc[1].status \in TerminalStatuses
    /\ file.doc[1].completed_at # None

\* C3: when an execution starts after a call that returned its TaskResult,
\* that earlier result has been persisted with a terminal status and a
\* completed_at, and the completed_at precedes the new started_at.
C3_NextStartsAfterTerminal ==
    [][ (Len(execLog') > Len(execLog) /\ exec # None /\ exec[1].phase = "returned"
           /\ exec'[1].phase = "streaming")
        => /\ PersistedTerminal(results[exec[1].result[1].task_id])
           /\ results[exec[1].result[1].task_id].doc[1].completed_at[1]
                < exec'[1].result[1].started_at ]_vars

\* C4: within one execute_task call, after result.status was assigned
\* COMPLETED or FAILED no different status is assigned.
C4_TerminalStatusIsFinal ==
    exec # None =>
        \A i, j \in 1..Len(exec[1].assigned) :
            (i < j /\ exec[1].assigned[i] \in TerminalStatuses)
                => exec[1].assigned[j] = exec[1].assigned[i]

\* C5: a call that got past reading the task document and returned has
\* persisted and returned a TaskResult with status COMPLETED or FAILED and
\* completed_at set.
C5_ReturnsTerminal ==
    (exec # None /\ exec[1].phase = "returned") =>
        /\ exec[1].result[1].status \in TerminalStatuses
        /\ exec[1].result[1].completed_at # None
        /\ results[exec[1].result[1].task_id] = WrittenFile(exec[1].result[1])

\* the latest execute_task call failed: it raised, or its result is FAILED
ExecutionFailed ==
    /\ exec # None
    /\ \/ exec[1].phase = "raised"
       \/ exec[1].phase = "returned" /\ exec[1].result[1].status = FAILED

\* C6: after a failed execution, with the daemon not shut down, the
\* processing loop is still running.
C6_FailureKeepsLoopRunning ==
    (ExecutionFailed /\ loop = "running") => pc \in {"wait", "got", "exec", "sleep"}

\* C7: a _save_state that raises neither ends the processing loop nor keeps
\* a task taken from the queue from being passed to execute_task.
C7_StateWriteFailureHarmless ==
    pc # "crashed" /\ dropped = {}

\* the latest call ended because the agent call raised
AgentRaised ==
    /\ exec # None
    /\ exec[1].ending # None
    /\ exec[1].ending[1].kind = "raise"

\* the FAILED result execute_task holds after the agent call raised
FailedWithAgentError ==
    /\ exec[1].result[1].status = FAILED
    /\ exec[1].result[1].completed_at # None
    /\ exec[1].result[1].error =
           Some(<<exec[1].ending[1].exc[1].type, ": ", exec[1].ending[1].exc[1].msg>>)

C9_MissingDocumentContained ==
    (exec # None /\ exec[1].exc = Some(NotFound) /\ loop = "running") =>
        /\ pc \in {"wait", "got", "sleep"}
        /\ errorLog = "task failed"
        /\ current_task = None
        /\ ~is_processing
        /\ (pc = "sleep" /\ stateFile.kind = "written") =>
               /\ stateFile.doc[1].current_task = None
               /\ ~stateFile.doc[1].is_processing

\* C10: a step that changes the queue (put or get_next) and leaves a written
\* QueueState leaves one whose queue_size is the length of the queue after
\* the step, and the step changes the queue by exactly one task.
C10_QueueSizeMatchesQueue ==
    [][ queue' # queue =>
          /\ stateFile'.kind = "written" => stateFile'.doc[1].queue_size = Len(queue')
          /\ \/ Len(queue') = Len(queue) + 1
             \/ Len(queue') = Len(queue) - 1 ]_vars

\* put wrote the snapshot of one waiting task while another task is current
C10_Witness ==
    /\ stateFile.kind = "written"
    /\ stateFile.doc[1].queue_size = 1
    /\ stateFile.doc[1].is_processing
    /\ Len(queue) = 1
    /\ pc = "exec"

\* the call the processing loop awaits has TaskResult.task_id = Stem(its file)
ExecId(x) == Stem(x.task)

\* C11: while a task T is executing, a put leaves current_task and
\* is_processing as they are, and the QueueState it writes has current_task T,
\* is_processing true and queue_size the number of waiting tasks; and when
\* the persisted current_task becomes another task after a call for T that
\* returned, T's result file holds a terminal TaskResult.
C11_EnqueueDuringExecution ==
    [][ /\ (pc = "exec" /\ queue' # queue) =>
              /\ current_task' = current_task
              /\ is_processing' = is_processing
              /\ stateFile'.kind = "written" =>
                    /\ stateFile'.doc[1].current_task = Some(exec[1].task)
                    /\ stateFile'.doc[1].is_processing
                    /\ stateFile'.doc[1].queue_size = Len(queue')
        /\ ( /\ exec # None
             /\ exec[1].phase = "returned"
             /\ stateFile'.kind = "written"
             /\ stateFile'.doc[1].current_task \notin {None, Some(exec[1].task)} )
           => PersistedTerminal(results[ExecId(exec[1])]) ]_vars

\* C12: once the daemon is shut down, an execute_task call that had started
\* its agent call has run to the end of the agent's stream: it was not
\* cancelled while it awaited the stream.
C12_ShutdownLetsTaskFinish ==
    (loop = "closed" /\ exec # None /\ exec[1].result # None) =>
        /\ exec[1].ending # None
        /\ exec[1].phase \in {"returned", "raised"}

\* the latest call is for a task_id that an earlier call was for
ExecutedBefore ==
    /\ exec # None
    /\ \E i \in 1..(Len(execLog) - 1) : Stem(execLog[i]) = ExecId(exec[1])

\* C13: when a task_id is executed again and the second call returns, the
\* one result file of that task_id holds exactly the TaskResult of the second
\* call: nothing the first call wrote is left in it.
C13_SecondResultReplacesFirst ==
    (ExecutedBefore /\ exec[1].phase = "returned") =>
        results[ExecId(exec[1])] = WrittenFile(exec[1].result[1])

\* task-001.md was executed twice; the second call started later than the
\* first and returned COMPLETED, and the file holds that result, without error
C13_Witness ==
    /\ ExecutedBefore
    /\ execLog = << <<"task-", "001", ".md">>, <<"task-", "001", ".md">> >>
    /\ exec[1].phase = "returned"
    /\ exec[1].result[1].status = COMPLETED
    /\ exec[1].result[1].started_at > 1
    /\ results[ExecId(exec[1])].kind = "written"
    /\ results[ExecId(exec[1])].doc[1].started_at = exec[1].result[1].started_at
    /\ results[ExecId(exec[1])].doc[1].error = None

\* ---------------------------------------------------------------- the queue CLI

\* cli.show_queue run on the file as it is: "Queue state not available" when
\* the file does not exist; json.load raises on an empty or cut-off document;
\* else the queue size, the current task and the queued tasks are printed
show_queue(file) ==
    CASE file.kind = "absent" ->
           [ kind |-> "unavailable", queue_size |-> None, processing |-> None,
             queued_tasks |-> <<>> ]
      [] file.kind = "partial" ->
           [ kind |-> "raised", queue_size |-> None, processing |-> None,
             queued_tasks |-> <<>> ]
      [] OTHER ->
           [ kind |-> "shown",
             queue_size |-> Some(file.doc[1].queue_size),
             processing |-> file.doc[1].current_task,
             queued_tasks |-> file.doc[1].queued_tasks ]

\* the contents state/queue_state.json has, one after the other, from the
\* open(STATE_FILE, 'w') of one _save_state to the end of its `with` block:
\* the truncated file that json.dump is filling, then the file it leaves
DuringSave(left) == { PartialFile, left }

\* C14: while the daemon runs and no task was ever handed to the queue, the
\* `queue` command finds the state file and prints queue size 0 and no
\* current task.
C14_FreshStateReported ==
    (loop = "running" /\ delivered = <<>>) =>
        /\ show_queue(stateFile).kind = "shown"
        /\ show_queue(stateFile).queue_size = Some(0)
        /\ show_queue(stateFile).processing = None

\* C15: whatever the state file holds during and after a _save_state of the
\* daemon, a show_queue that reads it at that moment gets a complete
\* QueueState: its json.load never meets an empty or cut-off document.
C15_ReaderSeesCompleteSnapshot ==
    [][ stateFile' # stateFile =>
          \A f \in DuringSave(stateFile') : show_queue(f).kind = "shown" ]_vars

\* TaskQueue._load_state: the document of the file, the default state when
\* the file does not exist, None when json.load raises
LoadState(file) ==
    CASE file.kind = "absent" -> Some(Snapshot(<<>>, None, FALSE))
      [] file.kind = "partial" -> None
      [] OTHER -> file.doc

\* TaskQueue.get_queued_tasks: None when _load_state raises
get_queued_tasks(file) ==
    IF LoadState(file) = None THEN None ELSE Some(LoadState(file)[1].queued_tasks)

\* C16: a written QueueState lists in queued_tasks the tasks waiting in the
\* queue, head first, as many as its queue_size, and get_queued_tasks
\* returns that list.
C16_QueuedTasksListsQueue ==
    stateFile.kind = "written" =>
        /\ stateFile.doc[1].queued_tasks = queue
        /\ Len(stateFile.doc[1].queued_tasks) = stateFile.doc[1].queue_size
        /\ get_queued_tasks(stateFile) = Some(queue)

\* C17: a step of the watcher thread (on_created) leaves the queue,
\* current_task, is_processing and the state file as they are: at most it
\* hands one put to the loop; and every step that changes one of the four is
\* a step of the running event loop, not of the watcher.
C17_WatcherOnlySchedules ==
    [][ /\ nEvents' # nEvents =>
              /\ UNCHANGED <<queue, current_task, is_processing, stateFile>>
              /\ \/ scheduled' = scheduled
                 \/ /\ delivered' # <<>>
                    /\ scheduled' = Append(scheduled, delivered'[Len(delivered')])
        /\ ( \/ queue' # queue
             \/ current_task' # current_task
             \/ is_processing' # is_processing
             \/ stateFile' # stateFile )
           => (loop = "running" /\ nEvents' = nEvents) ]_vars

\* the watcher has handed a put to the loop while a task is executing, and
\* neither the queue nor the state file shows it yet
C17_Witness ==
    /\ pc = "exec"
    /\ scheduled # <<>>
    /\ queue = <<>>
    /\ stateFile.kind = "written"
    /\ stateFile.doc[1].queue_size = 0
    /\ stateFile.doc[1].current_task = current_task

\* a step of the loop in which a scheduled TaskQueue.put raised: the put was
\* run and its _save_state left the cut-off file
PutRaised ==
    /\ Len(scheduled') < Len(scheduled)
    /\ stateFile' = PartialFile

\* C18: when a scheduled TaskQueue.put raises, a failure to queue the file is
\* logged, and the watcher thread is still running afterwards.
C18_EnqueueFailureLogged ==
    [][ PutRaised => (watcherLog' = "failed" /\ observer' = "running") ]_vars

\* C19: when an execute_task call that started the agent call has persisted
\* its TaskResult and returned, the agent's event stream has been released:
\* the generator is not left suspended.
C19_StreamReleasedOnExit ==
    ( /\ exec # None
      /\ exec[1].ending # None
      /\ exec[1].phase = "returned"
      /\ results[ExecId(exec[1])] = WrittenFile(exec[1].result[1]) )
    => exec[1].stream # "suspended"

\* ---------------------------------------------------------------- validators
\* workflow/validators: RecodingValidator, IndicatorValidator and
\* TableSpecsValidator. A message of the errors or warnings list is the tuple
\* of the text that names its check and of the values formatted into it.

\* recoding rules, or indicators, in one argument of validate
MaxItems == 2
\* tables in one table_specs
MaxTables == 1

\* the metadata the validators are built with: variable name -> variable_type
Metadata == [ age |-> "numeric", gender |-> "string" ]

\* self.variable_names
variable_names == DOMAIN Metadata

\* self.metadata.get(name): None for a name that is not in the metadata
MetadataGet(name) == IF name \in variable_names THEN Some(Metadata[name]) ELSE None

RECURSIVE Flatten(_)
\* list.extend over a list of lists; also the errors appended by one `for`
Flatten(ss) == IF ss = <<>> THEN <<>> ELSE Head(ss) \o Flatten(Tail(ss))

\* the set of the elements of a list: set(list)
ToSet(s) == { s[i] : i \in 1..Len(s) }

\* list.count(x)
Count(s, x) == Cardinality({ i \in 1..Len(s) : s[i] = x })

\* ValidationResult(is_valid=len(errors) == 0, errors=..., warnings=..., ...)
ValidationResult_WarningsCount(errors, warnings, checks_performed) ==
    [ is_valid |-> Len(errors) + Len(warnings) = 0,
      errors |-> errors,
      warnings |-> warnings,
      checks_performed |-> checks_performed ]

ValidationResult(errors, warnings, checks_performed) ==
    [ is_valid |-> Len(errors) = 0,
      errors |-> errors,
      warnings |-> warnings,
      checks_performed |-> checks_performed ]

\* the transformation lists of a recoding rule: none; two ranges; a range
\* whose start is above its end; twice the same one-value source and target
TransformationLists ==
    { <<>>,
      << [ source |-> <<18, 24>>, target |-> 1 ], [ source |-> <<25, 34>>, target |-> 2 ] >>,
      << [ source |-> <<99, 18>>, target |-> 1 ] >>,
      << [ source |-> <<18>>, target |-> 1 ], [ source |-> <<18>>, target |-> 1 ] >> }

\* the recoding rules validate is given
RecodingRules ==
    [ source_variable : {"age", "gender", "income"},
      target_variable : {"age_group", "age"},
      rule_type : {"range", "mapping"},
      transformations : TransformationLists ]

\* every source value of a rule: all_source_values / all_sources
AllSources(rule) ==
    Flatten([ i \in 1..Len(rule.transformations) |-> rule.transformations[i].source ])

\* Check 1 of RecodingValidator.validate: source variables exist
SourceErrors(rules) ==
    Flatten([ i \in 1..Len(rules) |->
        IF rules[i].source_variable \notin variable_names
          THEN << <<"Source variable not found in metadata",
                    rules[i].source_variable, rules[i].target_variable>> >>
          ELSE <<>> ])

\* Check 2: a target variable that exists already is a warning
TargetWarnings(rules) ==
    Flatten([ i \in 1..Len(rules) |->
        IF rules[i].target_variable \in variable_names
          THEN << <<"Target variable already exists in metadata",
                    rules[i].target_variable>> >>
          ELSE <<>> ])

\* Check 3 for one transformation of a rule of type range
RangeError(target_variable, source_range) ==
    IF Len(source_range) # 2
      THEN << <<"Invalid range: must have exactly 2 values",
                target_variable, Len(source_range)>> >>
      ELSE IF source_range[1] > source_range[2]
        THEN << <<"Invalid range: start > end",
                  target_variable, source_range[1], source_range[2]>> >>
        ELSE <<>>

\* Check 3: value ranges are valid
RangeErrors(rules) ==
    Flatten([ i \in 1..Len(rules) |->
        IF rules[i].rule_type = "range"
          THEN Flatten([ j \in 1..Len(rules[i].transformations) |->
                   RangeError(rules[i].target_variable,
                              rules[i].transformations[j].source) ])
          ELSE <<>> ])

\* Check 4: the target variables that occur more than once; the message
\* holds them in the order of a Python set, here as a set
DuplicateTargetErrors(rules) ==
    LET targets == [ i \in 1..Len(rules) |-> rules[i].target_variable ]
        duplicates == { t \in ToSet(targets) : Count(targets, t) > 1 }
    IN IF duplicates # {}
         THEN << <<"Duplicate target variables found", duplicates>> >>
         ELSE <<>>

\* Check 5: a range or mapping rule on a numeric variable has source values
CompletenessErrors(rules) ==
    Flatten([ i \in 1..Len(rules) |->
        IF /\ rules[i].rule_type \in {"range", "mapping"}
           /\ MetadataGet(rules[i].source_variable) = Some("numeric")
           /\ AllSources(rules[i]) = <<>>
          THEN << <<"Rule has no source values defined", rules[i].target_variable>> >>
          ELSE <<>> ])

\* Check 6: the target values of a rule are unique
TargetValueErrors(rules) ==
    Flatten([ i \in 1..Len(rules) |->
        LET target_values == [ j \in 1..Len(rules[i].transformations) |->
                                  rules[i].transformations[j].target ]
        IN IF Len(target_values) # Cardinality(ToSet(target_values))
             THEN << <<"Rule has duplicate target values", rules[i].target_variable>> >>
             ELSE <<>> ])

\* Check 7: the source values of a range or mapping rule do not repeat
OverlapErrors(rules) ==
    Flatten([ i \in 1..Len(rules) |->
        IF /\ rules[i].rule_type \in {"range", "mapping"}
           /\ Len(AllSources(rules[i])) # Cardinality(ToSet(AllSources(rules[i])))
          THEN << <<"Rule has overlapping source values", rules[i].target_variable>> >>
          ELSE <<>> ])

\* RecodingValidator.validate
RecodingValidate(rules) ==
    ValidationResult(
        SourceErrors(rules) \o RangeErrors(rules) \o DuplicateTargetErrors(rules)
            \o CompletenessErrors(rules) \o TargetValueErrors(rules)
            \o OverlapErrors(rules),
        TargetWarnings(rules),
        <<"Source variables exist", "Target variable conflicts",
          "Value ranges validity", "Duplicate target variables",
          "Transformation completeness", "Target value uniqueness",
          "Source value overlap">>)

\* IndicatorValidator.VALID_METRICS
VALID_METRICS == {"average", "percentage", "distribution"}

\* the indicators validate is given
Indicators ==
    [ id : {"IND_001", "IND_002"},
      metric : {"average", "percentage", "median"},
      underlying_variables : { <<>>, <<"age">>, <<"gender">>, <<"income">> } ]

\* Check 1 of IndicatorValidator.validate: variables exist
VariableErrors(indicators) ==
    Flatten([ i \in 1..Len(indicators) |->
        Flatten([ j \in 1..Len(indicators[i].underlying_variables) |->
            IF indicators[i].underlying_variables[j] \notin variable_names
              THEN << <<"Indicator references non-existent variable",
                        indicators[i].id, indicators[i].underlying_variables[j]>> >>
              ELSE <<>> ]) ])

\* Check 2: metric valid
MetricErrors(indicators) ==
    Flatten([ i \in 1..Len(indicators) |->
        IF indicators[i].metric \notin VALID_METRICS
          THEN << <<"Indicator has invalid metric", indicators[i].id,
                    indicators[i].metric>> >>
          ELSE <<>> ])

\* Check 3: no duplicate IDs
DuplicateIdErrors(indicators) ==
    LET indicator_ids == [ i \in 1..Len(indicators) |-> indicators[i].id ]
        duplicates == { id \in ToSet(indicator_ids) : Count(indicator_ids, id) > 1 }
    IN IF duplicates # {}
         THEN << <<"Duplicate indicator IDs found", duplicates>> >>
         ELSE <<>>

\* Check 4: variables not empty
EmptyVariablesErrors(indicators) ==
    Flatten([ i \in 1..Len(indicators) |->
        IF indicators[i].underlying_variables = <<>>
          THEN << <<"Indicator has no underlying variables", indicators[i].id>> >>
          ELSE <<>> ])

\* Check 5 for the variables of the metadata: average needs a numeric variable
TypeErrors(indicators) ==
    Flatten([ i \in 1..Len(indicators) |->
        Flatten([ j \in 1..Len(indicators[i].underlying_variables) |->
            LET var == indicators[i].underlying_variables[j]
            IN IF /\ MetadataGet(var) # None
                  /\ indicators[i].metric = "average"
                  /\ MetadataGet(var)[1] # "numeric"
                 THEN << <<"Indicator uses metric 'average' with non-numeric variable",
                           indicators[i].id, var, MetadataGet(var)[1]>> >>
                 ELSE <<>> ]) ])

\* Check 5: percentage with a variable that is not numeric is a warning
TypeWarnings(indicators) ==
    Flatten([ i \in 1..Len(indicators) |->
        Flatten([ j \in 1..Len(indicators[i].underlying_variables) |->
            LET var == indicators[i].underlying_variables[j]
            IN IF /\ MetadataGet(var) # None
                  /\ indicators[i].metric = "percentage"
                  /\ MetadataGet(var)[1] # "numeric"
                 THEN << <<"Indicator uses metric 'percentage' with variable",
                           indicators[i].id, var, MetadataGet(var)[1]>> >>
                 ELSE <<>> ]) ])

\* IndicatorValidator.validate
IndicatorValidate(indicators) ==
    ValidationResult(
        VariableErrors(indicators) \o MetricErrors(indicators)
            \o DuplicateIdErrors(indicators) \o EmptyVariablesErrors(indicators)
            \o TypeErrors(indicators),
        TypeWarnings(indicators),
        <<"Variables exist", "Metric valid", "No duplicate IDs",
          "Variables not empty", "Variable type matches metric">>)

\* the ids of the indicators TableSpecsValidator is built with
indicator_ids == {"IND_001", "IND_002"}

\* valid_sort_options of TableSpecsValidator.validate
valid_sort_options == {"none", "asc", "desc"}

\* the tables of the table_specs validate is given; a threshold is in tenths
Tables ==
    [ id : {"TABLE_001"},
      row_indicators : { <<"IND_001">>, <<"IND_003">> },
      column_indicators : { <<"IND_002">>, <<"IND_001">> },
      sort_rows : {None, Some("random")},
      sort_columns : {Some("none"), Some("sideways")},
      cramers_v_threshold : {None, Some(3), Some(15)},
      min_count : {None, Some(0), Some(30)} ]

\* Check 1 of TableSpecsValidator.validate: indicator IDs exist
IndicatorIdErrors(tables) ==
    Flatten([ i \in 1..Len(tables) |->
        LET ids == tables[i].row_indicators \o tables[i].column_indicators
        IN Flatten([ j \in 1..Len(ids) |->
               IF ids[j] \notin indicator_ids
                 THEN << <<"Table references non-existent indicator",
                           tables[i].id, ids[j]>> >>
                 ELSE <<>> ]) ])

\* Check 2: no overlap between rows and columns
RowColumnErrors(tables) ==
    Flatten([ i \in 1..Len(tables) |->
        LET overlap == ToSet(tables[i].row_indicators)
                         \cap ToSet(tables[i].column_indicators)
        IN IF overlap # {}
             THEN << <<"Table has overlapping indicators in rows and columns",
                       tables[i].id, overlap>> >>
             ELSE <<>> ])

\* Check 3: the weighting variable, when there is one, exists
WeightingErrors(weighting_variable) ==
    IF weighting_variable # None /\ weighting_variable[1] \notin variable_names
      THEN << <<"Weighting variable not found in metadata", weighting_variable[1]>> >>
      ELSE <<>>

\* Check 4 for one of sort_rows, sort_columns
SortError(id, key, value) ==
    IF value # None /\ value[1] \notin valid_sort_options
      THEN << <<"Table has invalid sort value", id, key, value[1]>> >>
      ELSE <<>>

\* Check 4: sorting valid
SortErrors(tables) ==
    Flatten([ i \in 1..Len(tables) |->
        SortError(tables[i].id, "sort_rows", tables[i].sort_rows)
            \o SortError(tables[i].id, "sort_columns", tables[i].sort_columns) ])

\* Check 5: Cramer's V threshold in [0, 1], here in tenths
CramersVErrors(tables) ==
    Flatten([ i \in 1..Len(tables) |->
        IF /\ tables[i].cramers_v_threshold # None
           /\ ~(0 <= tables[i].cramers_v_threshold[1]
                  /\ tables[i].cramers_v_threshold[1] <= 10)
          THEN << <<"Table has Cramer's V threshold outside [0, 1]",
                    tables[i].id, tables[i].cramers_v_threshold[1]>> >>
          ELSE <<>> ])

\* Check 6: min_count > 0
MinCountErrors(tables) ==
    Flatten([ i \in 1..Len(tables) |->
        IF tables[i].min_count # None /\ tables[i].min_count[1] <= 0
          THEN << <<"Table has min_count which must be greater than 0",
                    tables[i].id, tables[i].min_count[1]>> >>
          ELSE <<>> ])

\* TableSpecsValidator.validate
TableSpecsValidate(table_specs) ==
    ValidationResult(
        IndicatorIdErrors(table_specs.tables) \o RowColumnErrors(table_specs.tables)
            \o WeightingErrors(table_specs.weighting_variable)
            \o SortErrors(table_specs.tables) \o CramersVErrors(table_specs.tables)
            \o MinCountErrors(table_specs.tables),
        <<>>,
        <<"Indicator IDs exist", "No overlap between rows and columns",
          "Weighting variable exists", "Sorting valid", "Cramer's V in range",
          "Count min > 0">>)

\* what a validator is built for and called with: the rules, the indicators
\* or the table_specs
ValidatorInput(input) ==
    \/ \E k \in 0..MaxItems : \E rules \in [1..k -> RecodingRules] :
           input = [ validator |-> "recoding", argument |-> rules ]
    \/ \E k \in 0..MaxItems : \E indicators \in [1..k -> Indicators] :
           input = [ validator |-> "indicators", argument |-> indicators ]
    \/ \E k \in 0..MaxTables : \E tables \in [1..k -> Tables] :
           \E w \in {None, Some("age"), Some("income")} :
               input = [ validator |-> "table_specs",
                         argument |-> [ tables |-> tables, weighting_variable |-> w ] ]

\* no MonitorDaemon was built in this process: the validators and the workflow
\* graph are libraries that run without the daemon
DaemonNotStarted ==
    /\ running = FALSE
    /\ observer = "stopped"
    /\ loop = "closed"
    /\ scheduled = <<>>
    /\ queue = <<>>
    /\ current_task = None
    /\ is_processing = FALSE
    /\ stateFile = AbsentFile
    /\ pc = "wait"
    /\ task_file = None
    /\ execLog = <<>>
    /\ inflight = {}
    /\ exec = None
    /\ results = [ id \in TaskIds |-> AbsentFile ]
    /\ now = 0
    /\ nEvents = 0
    /\ delivered = <<>>
    /\ dequeued = <<>>
    /\ dropped = {}
    /\ errorLog = "none"
    /\ watcherLog = "none"

\* a validator is built with Metadata and is about to be called; the daemon
\* is not running
ValidatorInit ==
    /\ DaemonNotStarted
    /\ ValidatorInput(validatorInput)
    /\ validation = None
    /\ state = None
    /\ run = None

\* validate_recoding_rules(rules, metadata)
validate_recoding_rules ==
    /\ validatorInput.validator = "recoding"
    /\ validation = None
    /\ validation' = Some(RecodingValidate(validatorInput.argument))
    /\ UNCHANGED <<daemonVars, validatorInput, workflowVars>>

\* validate_indicators(indicators, metadata)
validate_indicators ==
    /\ validatorInput.validator = "indicators"
    /\ validation = None
    /\ validation' = Some(IndicatorValidate(validatorInput.argument))
    /\ UNCHANGED <<daemonVars, validatorInput, workflowVars>>

\* validate_table_specs(table_specs, metadata, indicators)
validate_table_specs ==
    /\ validatorInput.validator = "table_specs"
    /\ validation = None
    /\ validation' = Some(TableSpecsValidate(validatorInput.argument))
    /\ UNCHANGED <<daemonVars, validatorInput, workflowVars>>

ValidatorNext ==
    \/ validate_recoding_rules
    \/ validate_indicators
    \/ validate_table_specs

ValidatorSpec == ValidatorInit /\ [][ValidatorNext]_vars

\* a rule names a source variable that is not in the metadata
HasUnknownSource(rules) ==
    \E i \in 1..Len(rules) : rules[i].source_variable \notin {"age", "gender"}

\* a rule of type range has a two-value range whose start is above its end
HasInvertedRange(rules) ==
    \E i \in 1..Len(rules) :
        /\ rules[i].rule_type = "range"
        /\ \E j \in 1..Len(rules[i].transformations) :
               LET source == rules[i].transformations[j].source
               IN Len(source) = 2 /\ source[1] > source[2]

\* two rules have the same target variable
HasDuplicateTarget(rules) ==
    \E i, j \in 1..Len(rules) :
        i # j /\ rules[i].target_variable = rules[j].target_variable

\* C20: each of the three validate functions returns is_valid true exactly
\* when its errors list is empty, so a result that has only warnings is
\* valid; and recoding rules with a source variable that is not in the
\* metadata, with a range whose start is above its end, or with two rules for
\* one target variable are returned as not valid.
C20_ValidIffNoErrors ==
    validation # None =>
        /\ validation[1].is_valid <=> (validation[1].errors = <<>>)
        /\ (validation[1].errors = <<>> /\ validation[1].warnings # <<>>)
               => validation[1].is_valid
        /\ ( /\ validatorInput.validator = "recoding"
             /\ \/ HasUnknownSource(validatorInput.argument)
                \/ HasInvertedRange(validatorInput.argument)
                \/ HasDuplicateTarget(validatorInput.argument) )
           => ~validation[1].is_valid

\* recoding rules that only overwrite an existing variable: one warning, no
\* error, and the result is valid
C20_Witness ==
    /\ validation # None
    /\ validatorInput.validator = "recoding"
    /\ Len(validatorInput.argument) = 1
    /\ validation[1].warnings # <<>>
    /\ validation[1].errors = <<>>
    /\ validation[1].is_valid

\* ---------------------------------------------------------------- properties of the daemon, continued

\* C21: the status of the TaskResult of a call is RUNNING while the stream has
\* not ended; once the stream ended with a 'success' message it is COMPLETED,
\* and once it ended with an 'error' message it is FAILED with the error of
\* that message.
C21_FirstTerminalEventDecides ==
    (exec # None /\ exec[1].result # None) =>
        /\ exec[1].phase = "streaming" => exec[1].result[1].status = RUNNING
        /\ (exec[1].ending # None /\ exec[1].ending[1].kind = "success")
               => exec[1].result[1].status = COMPLETED
        /\ (exec[1].ending # None /\ exec[1].ending[1].kind = "error")
               => /\ exec[1].result[1].status = FAILED
                  /\ exec[1].result[1].error =
                         Some(<<OrDefault(exec[1].ending[1].result, "Task failed")>>)

C23_QueueOnlyFromEvents ==
    /\ Len(dequeued) + Len(queue) + Len(scheduled) <= nEvents
    /\ \A i \in 1..Len(queue) : queue[i] \in ToSet(delivered)
    /\ \A i \in 1..Len(dequeued) : dequeued[i] \in ToSet(delivered)
    /\ \A i \in 1..Len(execLog) : execLog[i] \in ToSet(delivered)
    /\ nEvents = 0 => (queue = <<>> /\ execLog = <<>> /\ exec = None)

\* the daemon executed task-002.md, created while it ran, and is idle again;
\* task-001.md, for which no event came, was neither queued nor executed
C23_Witness ==
    /\ delivered = << <<"task-", "002", ".md">> >>
    /\ execLog = delivered
    /\ exec # None
    /\ exec[1].phase = "returned"
    /\ queue = <<>>
    /\ pc = "wait"
    /\ loop = "running"
    /\ results[<<"task-", "001">>] = AbsentFile

\* C28: once a task was started in this run, a written QueueState has
\* is_processing true exactly when its current_task is not null, and its
\* current_task is then the file of the execute_task call in flight; the same
\* holds for current_task and is_processing in memory.
C28_ProcessingIffCurrentInFlight ==
    /\ is_processing <=> (current_task # None)
    /\ (stateFile.kind = "written" /\ execLog # <<>>) =>
           /\ stateFile.doc[1].is_processing <=> (stateFile.doc[1].current_task # None)
           /\ stateFile.doc[1].current_task # None =>
                  /\ inflight = {Len(execLog)}
                  /\ stateFile.doc[1].current_task = Some(execLog[Len(execLog)])

\* the tasks put into the queue whose execution has not finished: those
\* waiting, and the one taken from the queue or being executed
Unfinished == Len(queue) + (IF pc \in {"got", "exec"} THEN 1 ELSE 0)

\* C29: once a task was taken from the queue in this run, a written
\* QueueState accounts for every enqueued task whose execution has not
\* finished: queue_size, plus one when current_task is not null, is their
\* number.
C29_SnapshotAccountsForTasks ==
    (stateFile.kind = "written" /\ dequeued # <<>> /\ loop = "running") =>
        stateFile.doc[1].queue_size
            + (IF stateFile.doc[1].current_task # None THEN 1 ELSE 0)
          = Unfinished

\* C30: the files taken from the queue are the files passed to execute_task,
\* one call each and in the same order, but for the file taken last while it
\* is not started yet: none is taken and then given up.
C30_DequeuedExecutedOnce ==
    /\ IsPrefix(execLog, dequeued)
    /\ Len(dequeued) - Len(execLog) <= (IF pc = "got" THEN 1 ELSE 0)

\* ---------------------------------------------------------------- workflow graph

\* config["max_iterations"] of a run is drawn from 1..MaxIterations
MaxIterations == 3
\* the count of generate executions is kept up to MaxGenerations and stays there
MaxGenerations == MaxIterations + 2

\* what _parse_recoding_response makes of the rules the LLM or the reviewer
\* writes: state["recoding_rules"].get("recoding_rules", []). No rule; the rule
\* of _mock_llm_response; a rule whose source variable is not in the metadata;
\* a rule with a range whose start is above its end
ParsedRules ==
    { <<>>,
      << [ source_variable |-> "age", target_variable |-> "age_group",
           rule_type |-> "range",
           transformations |-> << [ source |-> <<18, 24>>, target |-> 1 ],
                                  [ source |-> <<25, 34>>, target |-> 2 ] >> ] >>,
      << [ source_variable |-> "income", target_variable |-> "age_group",
           rule_type |-> "range",
           transformations |-> << [ source |-> <<18, 24>>, target |-> 1 ],
                                  [ source |-> <<25, 34>>, target |-> 2 ] >> ] >>,
      << [ source_variable |-> "age", target_variable |-> "age_group",
           rule_type |-> "range",
           transformations |-> << [ source |-> <<99, 18>>, target |-> 1 ] >> ] >> }

\* response = llm.invoke(prompt), through _parse_recoding_response: the rules
\* of a response that parses, or None for a response json.loads rejects
LLMResponses == {None} \cup { Some(rules) : rules \in ParsedRules }

\* what the reviewer resumes the interrupt of review_recoding with
HumanInputs ==
    [ decision : {"approve", "reject", "modify"},
      modified_rules : {None} \cup { Some(rules) : rules \in ParsedRules } ]

\* create_initial_state(spss_file_path, config): the fields of the recoding step
create_initial_state(config) ==
    [ config |-> config,
      recoding_rules |-> None,
      recoding_validation |-> None,
      recoding_feedback |-> None,
      recoding_feedback_source |-> None,
      recoding_iteration |-> 1,
      recoding_rules_approved |-> FALSE ]

\* workflow.invoke(initial_state): START -> generate_recoding
WorkflowInit ==
    /\ DaemonNotStarted
    /\ validatorInput = NoInput
    /\ validation = None
    /\ \E n \in 1..MaxIterations, auto \in BOOLEAN :
           state = create_initial_state([ max_iterations |-> n,
                                          auto_approve_recoding |-> auto ])
    /\ run = [ node |-> "generate_recoding",
               previous |-> "START",
               generations |-> 0,
               prompt |-> "none",
               unparsed |-> FALSE,
               passed |-> FALSE,
               reviews |-> 0 ]

\* the prompt generate_recoding builds: build_validation_retry_prompt,
\* build_human_feedback_prompt or build_initial_recoding_prompt
BuildPrompt(s) ==
    IF s.recoding_feedback_source = Some("validation") /\ s.recoding_feedback # None
      THEN "validation"
    ELSE IF s.recoding_feedback_source = Some("human") /\ s.recoding_feedback # None
      THEN "human"
    ELSE "initial"

\* the return value of generate_recoding for the parsed response
Generated(s, response) ==
    IF response = None
      THEN [ s EXCEPT !.recoding_rules = None ]
      ELSE [ s EXCEPT !.recoding_rules = response,
                      !.recoding_iteration = s.recoding_iteration + 1,
                      !.recoding_feedback = None,
                      !.recoding_feedback_source = None ]

\* the node generate_recoding, and its edge to validate_recoding
generate_recoding ==
    /\ run.node = "generate_recoding"
    /\ \E response \in LLMResponses :
           /\ state' = Generated(state, response)
           /\ run' = [ run EXCEPT
                  !.node = "validate_recoding",
                  !.previous = "generate_recoding",
                  !.generations = IF @ < MaxGenerations THEN @ + 1 ELSE @,
                  !.prompt = BuildPrompt(state),
                  !.unparsed = @ \/ response = None ]
    /\ UNCHANGED <<daemonVars, validatorVars>>

\* the return value of validate_recoding
Validated(s) ==
    IF s.recoding_rules = None
      THEN [ s EXCEPT !.recoding_validation =
                 Some([ is_valid |-> FALSE,
                        errors |-> << <<"No recoding rules generated">> >>,
                        warnings |-> <<>>,
                        checks_performed |-> <<>> ]) ]
      ELSE [ s EXCEPT !.recoding_validation =
                 Some(RecodingValidate(s.recoding_rules[1])) ]

\* the conditional edge after validate_recoding
after_recoding_validation(s) ==
    IF s.recoding_validation[1].is_valid THEN "review_recoding"
    ELSE IF s.recoding_iteration >= s.config.max_iterations THEN "review_recoding"
    ELSE "generate_recoding"

\* the node validate_recoding, and the edge after_recoding_validation
validate_recoding ==
    /\ run.node = "validate_recoding"
    /\ state' = Validated(state)
    /\ run' = [ run EXCEPT
           !.node = after_recoding_validation(state'),
           !.previous = "validate_recoding",
           !.passed = @ \/ state'.recoding_validation[1].is_valid ]
    /\ UNCHANGED <<daemonVars, validatorVars>>

\* the return value of review_recoding when the reviewer resumes it with
\* human_input
Reviewed(s, human_input) ==
    IF s.config.auto_approve_recoding
      THEN [ s EXCEPT !.recoding_rules_approved = TRUE,
                      !.recoding_feedback = None ]
    ELSE IF human_input.decision = "approve"
      THEN [ s EXCEPT !.recoding_rules_approved = TRUE,
                      !.recoding_feedback = None ]
    ELSE IF human_input.decision = "modify" /\ human_input.modified_rules # None
      THEN [ s EXCEPT !.recoding_rules = human_input.modified_rules,
                      !.recoding_rules_approved = TRUE,
                      !.recoding_feedback = None ]
    ELSE [ s EXCEPT !.recoding_rules_approved = FALSE,
                    !.recoding_feedback = Some([ decision |-> human_input.decision ]),
                    !.recoding_feedback_source = Some("human") ]

\* the conditional edge after review_recoding
after_recoding_review(s) ==
    IF s.recoding_rules_approved THEN "END"
    ELSE IF s.recoding_iteration >= s.config.max_iterations THEN "END"
    ELSE "generate_recoding"

\* the node review_recoding, and the edge after_recoding_review
review_recoding ==
    /\ run.node = "review_recoding"
    /\ \E human_input \in HumanInputs :
           state' = Reviewed(state, human_input)
    /\ run' = [ run EXCEPT
           !.node = after_recoding_review(state'),
           !.previous = "review_recoding",
           !.reviews = IF @ < MaxGenerations THEN @ + 1 ELSE @ ]
    /\ UNCHANGED <<daemonVars, validatorVars>>

WorkflowNext ==
    \/ generate_recoding
    \/ validate_recoding
    \/ review_recoding

WorkflowSpec == WorkflowInit /\ [][WorkflowNext]_vars

\* LangGraph runs the node an edge names: a run that is not at END goes on
WorkflowFairSpec == WorkflowSpec /\ WF_vars(WorkflowNext)

\* ---------------------------------------------------------------- properties of the workflow graph

\* C24: every run of the generate -> validate -> review loop reaches END,
\* whatever the LLM answers and the reviewer decides
C24_RunReachesEnd == <>(run.node = "END")

\* C25: when every response parsed, every validation so far failed and the
\* after-validation edge routes to review for the first time, generate has
\* run max_iterations times
C25_ReviewAfterMaxGenerations ==
    ( /\ run.node = "review_recoding"
      /\ run.reviews = 0
      /\ ~run.unparsed
      /\ ~run.passed )
        => run.generations = state.config.max_iterations

\* C26: when the after-validation edge routes back to generate (here: after
\* rules that parsed and failed validation), the feedback source is
\* "validation" and the feedback is the failed validation result, so that
\* generate builds the validation-retry prompt
C26_RetryCarriesValidation ==
    ( /\ run.node = "generate_recoding"
      /\ run.previous = "validate_recoding"
      /\ ~run.unparsed )
        => /\ state.recoding_feedback_source = Some("validation")
           /\ state.recoding_feedback = state.recoding_validation
           /\ BuildPrompt(state) = "validation"

\* C27: the run is at END only with recoding_rules_approved true (here: in
\* the runs where every response of the LLM parsed)
C27_EndOnlyApproved ==
    (run.node = "END" /\ ~run.unparsed) => state.recoding_rules_approved

====
